---- MODULE Spec2Model ----
(***************************************************************************)
(* A model of the scan orchestration and consolidation engine of           *)
(* oss-health-monitor, one specification per component:                    *)
(*   Spec          ScannerOrchestrator.scan_repository (backend selection, *)
(*                 the asyncio.gather fan-out/fan-in, per-backend entries) *)
(*   SpecDedup     ScannerOrchestrator._deduplicate_vulnerabilities        *)
(*   SpecOsv       OSVScanner.scan and its subprocess                      *)
(*   SpecSeverity  OSVScanner._extract_severity                            *)
(*   SpecMetrics   MetricsCalculator.calculate_metrics                     *)
(*   SpecCache     ScanCache over cachetools.TTLCache                      *)
(*   SpecApp       POST /v1/scan/repository: concurrent requests that     *)
(*                 share the ScanCache and the repository_scans table      *)
(*   SpecHealth    GET /health and GET /health/db                          *)
(*                                                                         *)
(* Encoding of Python values:                                              *)
(*   Optional[T]   a sequence of length <= 1: <<>> is None, <<v>> is v     *)
(*   float score   an integer number of tenths (75 is 7.5, 0 is 0.0)       *)
(*   dict          a function on the set of its keys                       *)
(*   list          a sequence                                              *)
(***************************************************************************)
EXTENDS Integers, Sequences, FiniteSets, TLC

VARIABLES
    \* ---- ScannerOrchestrator.scan_repository (Spec) ----
    scanners,            \* keys of self.scanners, the registered backend names
    scanner_preference,  \* the scanner_preference argument
    repo_exists,         \* whether repo_path names an existing, readable directory
    pc,                  \* "call" | "gather" | "done" | "raised"
    scanners_to_run,     \* names selected, in the order they were appended
    task,                \* name -> "idle" | "scheduled" | "running" | "returned" | "raised"
    outcome,             \* name -> what the backend's scan() produced (NoResult before)
    finished,            \* names in the order their tasks finished
    scanner_results,     \* the returned dict's "scanner_results"
    all_vulnerabilities, \* the merged list before deduplication
    vulnerabilities,     \* the returned dict's "vulnerabilities"
    \* ---- _deduplicate_vulnerabilities as a pure function (SpecDedup) ----
    dd_in,               \* the argument list
    dd_out,              \* the returned list
    dd_again,            \* what a second call, on the returned list, returned
    dd_pc,               \* "init" | "done" | "again"
    \* ---- OSVScanner.scan (SpecOsv) ----
    osv_pc,              \* "call" | "communicate" | "timeout" | "wait" | "returned"
    osv_proc,            \* the subprocess: "none" | "running" | "exited" | "killed" | "reaped"
    osv_returncode,      \* process.returncode, None while the process runs
    osv_stdout,          \* the bytes the process wrote to standard output
    osv_stderr,          \* the bytes the process wrote to standard error
    osv_trace,           \* what has happened to the subprocess, oldest first
    osv_result,          \* the ScannerOutput returned (NoResult before)
    \* ---- OSVScanner._extract_severity as a pure function (SpecSeverity) ----
    sev_in,              \* the list vuln["database_specific"]["severity"]
    sev_out,             \* the returned tuple, as [severity, cvss_score]
    sev_pc,              \* "init" | "done"
    \* ---- MetricsCalculator.calculate_metrics (SpecMetrics) ----
    met_in,              \* the vulnerabilities argument
    met_out,             \* what the call produced: the metrics, or an exception
    met_pc,              \* "init" | "done"
    \* ---- ScanCache (SpecCache) ----
    cache_store,         \* self.cache: the TTLCache's entries, least recently used first
    cache_clock,         \* the TTLCache's timer
    cache_got,           \* the get just made and what it returned (NoGet otherwise)
    cache_owed,          \* per tuple: the value and time of its latest set, None once
                         \* that entry was invalidated, cleared, overwritten or evicted
    cache_evicted,       \* the keys the set just made removed (NoEviction otherwise)
    \* ---- routes/scan.py (SpecApp) ----
    ep_pc,               \* per request slot: "idle" | "get_repository" |
                         \* "get_commit" | "clone" | "gather"
    ep_req,              \* per request, from the cache check on: the identity it
                         \* resolved to and its config.scanner
    ep_scan_id,          \* per request: the id of the record it created, 0 if none
    ep_dir,              \* per request: its checkout directory: "none" | "exists"
    ep_reading,          \* per request: the backends still running on the directory
    ep_ended,            \* the request that has just ended: what it asked, what its
                         \* client received, what it left behind (NoEnd otherwise)
    ep_db,               \* the committed repository_scans rows: status by scan id
    cache_instances,     \* how many ScanCache objects get_scan_cache() has built
    \* ---- routes/health.py (SpecHealth) ----
    health_db,           \* the database: whether it accepts connections, its tables
    health_response      \* the body of the health response just sent (NoBody otherwise)

orch_vars == <<scanners, scanner_preference, repo_exists, pc, scanners_to_run,
               task, outcome, finished, scanner_results, all_vulnerabilities,
               vulnerabilities>>
dd_vars == <<dd_in, dd_out, dd_again, dd_pc>>
osv_vars == <<osv_pc, osv_proc, osv_returncode, osv_stdout, osv_stderr,
              osv_trace, osv_result>>
sev_vars == <<sev_in, sev_out, sev_pc>>
met_vars == <<met_in, met_out, met_pc>>
cache_vars == <<cache_store, cache_clock, cache_got, cache_owed, cache_evicted>>
ep_vars == <<ep_pc, ep_req, ep_scan_id, ep_dir, ep_reading, ep_ended, ep_db,
             cache_instances>>
health_vars == <<health_db, health_response>>
vars == <<orch_vars, dd_vars, osv_vars, sev_vars, met_vars, cache_vars, ep_vars,
          health_vars>>

\* what the steps of one component leave alone
not_orch == <<health_vars, dd_vars, osv_vars, sev_vars, met_vars, cache_vars, ep_vars>>
not_dd == <<health_vars, orch_vars, osv_vars, sev_vars, met_vars, cache_vars, ep_vars>>
not_osv == <<health_vars, orch_vars, dd_vars, sev_vars, met_vars, cache_vars, ep_vars>>
not_sev == <<health_vars, orch_vars, dd_vars, osv_vars, met_vars, cache_vars, ep_vars>>
not_met == <<health_vars, orch_vars, dd_vars, osv_vars, sev_vars, cache_vars, ep_vars>>
not_cache == <<health_vars, orch_vars, dd_vars, osv_vars, sev_vars, met_vars, ep_vars>>
not_ep == <<orch_vars, dd_vars, osv_vars, sev_vars, met_vars, health_vars>>
not_health == <<orch_vars, dd_vars, osv_vars, sev_vars, met_vars, cache_vars, ep_vars>>

-----------------------------------------------------------------------------
(* Bounds of the model *)

\* longest findings list one backend reports in the orchestrator runs
MaxFindings == 2
\* longest argument list of the deduplication runs
MaxLen == 2
\* longest severity list of one OSV record
MaxEntries == 2
\* longest vulnerabilities list handed to calculate_metrics
MaxVulns == 3
\* the cache's max_size and its ttl, in ticks of the timer, scaled down from
\* the defaults of 1000 entries and 12 hours
MaxSize == 2
Ttl == 2
\* the last tick of the timer in the cache runs
MaxClock == 3

-----------------------------------------------------------------------------
(* Python helpers *)

None == <<>>
Some(v) == <<v>>

\* Python truthiness of an Optional[str]: None and "" are falsy
TruthyStr(opt) == opt # None /\ opt[1] # ""

\* Python truthiness of an Optional[float]: None and 0.0 are falsy
TruthyNum(opt) == opt # None /\ opt[1] # 0

\* the sequences over S of length <= n
SeqUpTo(S, n) == UNION {[1..k -> S] : k \in 0..n}

\* the elements of a sequence
Range(s) == {s[i] : i \in DOMAIN s}

-----------------------------------------------------------------------------
(* app/integrations/base.py: the normalized data *)

\* a Vulnerability, with the fields the orchestrator reads or carries through
Vulnerability(name, version, vid, cve, cvss, summary, fixed, source) ==
    [package_name |-> name, package_version |-> version,
     vulnerability_id |-> vid, cve_id |-> cve, cvss_score |-> cvss,
     summary |-> summary, fixed_version |-> fixed, source |-> source]

\* a ScannerOutput returned by a backend's scan()
ScannerOutput(status, vulns, ms, err) ==
    [exc |-> FALSE, status |-> status, vulnerabilities |-> vulns,
     execution_time_ms |-> ms, error_message |-> err, text |-> ""]

\* an Exception raised by a backend's scan(); text is str(exception).  It has
\* none of ScannerOutput's attributes: the fields below are placeholders that
\* no definition reads when exc is TRUE.
RaisedException(text) ==
    [exc |-> TRUE, status |-> "", vulnerabilities |-> <<>>,
     execution_time_ms |-> 0, error_message |-> None, text |-> text]

\* the slot of a task that has not finished
NoResult == [exc |-> FALSE, status |-> "pending", vulnerabilities |-> <<>>,
             execution_time_ms |-> 0, error_message |-> None, text |-> ""]

-----------------------------------------------------------------------------
(* ScannerOrchestrator._deduplicate_vulnerabilities *)

\* a faulty key that never looks at the CVE id
DedupKeyNoCve(v) ==
    <<v.package_name, v.package_version, v.vulnerability_id>>

\* lines 125-128: the key of the `seen` dict
DedupKey(v) ==
    IF TruthyStr(v.cve_id)
    THEN <<v.package_name, v.package_version, v.cve_id[1]>>
    ELSE <<v.package_name, v.package_version, v.vulnerability_id>>

\* a faulty chain that lacks the fixed-version branch of lines 139-140
ReplacesWithoutFixedVersionRule(vuln, existing) ==
    IF TruthyNum(vuln.cvss_score) /\ ~TruthyNum(existing.cvss_score) THEN TRUE
    ELSE IF TruthyStr(vuln.summary) /\ ~TruthyStr(existing.summary) THEN TRUE
    ELSE FALSE

\* lines 136-143: whether the incoming record replaces the kept one
Replaces(vuln, existing) ==
    IF TruthyNum(vuln.cvss_score) /\ ~TruthyNum(existing.cvss_score) THEN TRUE
    ELSE IF TruthyStr(vuln.fixed_version) /\ ~TruthyStr(existing.fixed_version) THEN TRUE
    ELSE IF TruthyStr(vuln.summary) /\ ~TruthyStr(existing.summary) THEN TRUE
    ELSE FALSE

\* a field-by-field merge: the kept record with the one field of the matching
\* rule copied from the incoming record (not what lines 137, 140, 143 do)
BackfilledRecord(vuln, existing) ==
    IF TruthyNum(vuln.cvss_score) /\ ~TruthyNum(existing.cvss_score)
    THEN [existing EXCEPT !.cvss_score = vuln.cvss_score]
    ELSE IF TruthyStr(vuln.fixed_version) /\ ~TruthyStr(existing.fixed_version)
    THEN [existing EXCEPT !.fixed_version = vuln.fixed_version]
    ELSE [existing EXCEPT !.summary = vuln.summary]

\* lines 137, 140, 143: seen[key] = vuln, the incoming record as a whole
Replacement(vuln, existing) == vuln

\* The `seen` dict is kept as the sequence of its items in insertion order
\* (a Python dict iterates in insertion order, and assigning to a key that is
\* present keeps the key's position).  Index of key k in seen, 0 if absent.
SeenIndex(seen, k) ==
    IF \E i \in DOMAIN seen : seen[i].key = k
    THEN CHOOSE i \in DOMAIN seen : seen[i].key = k
    ELSE 0

\* a faulty iteration that moves a replaced key to the end, as deleting the
\* key before assigning to it would
DedupStepReplacedLast(seen, vuln) ==
    LET key == DedupKey(vuln)
        i == SeenIndex(seen, key)
    IN  IF i = 0
        THEN Append(seen, [key |-> key, value |-> vuln])
        ELSE IF Replaces(vuln, seen[i].value)
             THEN Append(SubSeq(seen, 1, i - 1) \o SubSeq(seen, i + 1, Len(seen)),
                         [key |-> key, value |-> Replacement(vuln, seen[i].value)])
             ELSE seen

\* a faulty iteration that puts a new key in front of the kept ones
DedupStepNewestFirst(seen, vuln) ==
    LET key == DedupKey(vuln)
        i == SeenIndex(seen, key)
    IN  IF i = 0
        THEN <<[key |-> key, value |-> vuln]>> \o seen
        ELSE IF Replaces(vuln, seen[i].value)
             THEN [seen EXCEPT ![i].value = Replacement(vuln, seen[i].value)]
             ELSE seen

\* lines 123-143: one iteration of the loop
DedupStep(seen, vuln) ==
    LET key == DedupKey(vuln)
        i == SeenIndex(seen, key)
    IN  IF i = 0
        THEN Append(seen, [key |-> key, value |-> vuln])
        ELSE IF Replaces(vuln, seen[i].value)
             THEN [seen EXCEPT ![i].value = Replacement(vuln, seen[i].value)]
             ELSE seen

\* lines 121-143: the loop over the first n records
RECURSIVE DedupLoop(_, _)
DedupLoop(vulns, n) ==
    IF n = 0 THEN <<>> ELSE DedupStep(DedupLoop(vulns, n - 1), vulns[n])

\* lines 104-145: list(seen.values())
DeduplicateVulnerabilities(vulns) ==
    LET seen == DedupLoop(vulns, Len(vulns))
    IN  [i \in DOMAIN seen |-> seen[i].value]

-----------------------------------------------------------------------------
(* ScannerOrchestrator.__init__ and backend selection *)

\* classes a caller may pass instances of in `scanners`; the first two are
\* the repository's own backends
ScannerClasses == {"OSVScanner", "GitHubAdvisoryScanner", "Osv", "GitHub"}

\* scanner.__class__.__name__.lower()
Lower(cls) ==
    CASE cls = "OSVScanner" -> "osvscanner"
      [] cls = "GitHubAdvisoryScanner" -> "githubadvisoryscanner"
      [] cls = "Osv" -> "osv"
      [] cls = "GitHub" -> "github"

\* the constructor's `scanners` argument: None, or a list of instances, given
\* by the set of their classes
ScannersArgs ==
    {[is_none |-> TRUE, classes |-> {}]}
    \cup {[is_none |-> FALSE, classes |-> cs] : cs \in SUBSET ScannerClasses}

\* lines 26-32: the keys of self.scanners
Registered(arg) ==
    IF arg.is_none THEN {"osv", "github"} ELSE {Lower(c) : c \in arg.classes}

\* every name a backend can be registered under
BackendNames == {"osv", "github", "osvscanner", "githubadvisoryscanner"}

\* values of scanner_preference: the three documented ones, and strings the
\* code does not recognise (ScanConfig.scanner is an unvalidated str)
Preferences == {"osv", "github", "both", "all", "osvscanner", "githubadvisoryscanner"}

\* lines 53-60: scanners_to_run (the names; the instance is self.scanners[name])
ScannersToRun(registered, preference) ==
    (IF preference \in {"osv", "both"} /\ "osv" \in registered
     THEN <<"osv">> ELSE <<>>)
    \o
    (IF preference \in {"github", "both"} /\ "github" \in registered
     THEN <<"github">> ELSE <<>>)

-----------------------------------------------------------------------------
(* What a backend's scan() can produce *)

\* findings the backends report in the orchestrator runs: two records of one
\* key that differ in completeness, and one record of another key
OrchVulns ==
    { Vulnerability("requests", "2.0", "GHSA-1", Some("CVE-1"), Some(75), None, None, "osv"),
      Vulnerability("requests", "2.0", "GHSA-1", Some("CVE-1"), None, None, Some("2.1"), "github"),
      Vulnerability("flask", "1.0", "GHSA-2", None, None, Some("xss"), None, "osv") }

ExecutionTimes == {0, 7}

\* ScannerOutput per the backends' contract (osv_scanner.py 61-115,
\* github_advisory.py 59-72): findings only when completed, an error message
\* (possibly the empty stderr) when failed or timed out
ScannerOutputs ==
    {ScannerOutput("completed", vs, ms, None) :
        vs \in SeqUpTo(OrchVulns, MaxFindings), ms \in ExecutionTimes}
    \cup
    {ScannerOutput(st, <<>>, ms, Some(msg)) :
        st \in {"failed", "timeout"}, ms \in ExecutionTimes,
        msg \in {"", "Scanner execution timed out"}}

\* a scan() that breaks the no-throw contract
Exceptions == {RaisedException(t) : t \in {"", "boom"}}

Outcomes == ScannerOutputs \cup Exceptions

-----------------------------------------------------------------------------
(* ScannerOrchestrator.scan_repository *)

\* asyncio.gather called without return_exceptions
ReturnExceptionsOff == FALSE

\* line 68: the return_exceptions argument of asyncio.gather
ReturnExceptions == TRUE

TaskDone(t, n) == t[n] \in {"returned", "raised"}

\* asyncio.gather: its future is done when every child is done, or, without
\* return_exceptions, as soon as one child has raised
GatherDone(t, names) ==
    \/ \A i \in DOMAIN names : TaskDone(t, names[i])
    \/ ~ReturnExceptions /\ \E i \in DOMAIN names : t[names[i]] = "raised"

\* asyncio.gather without return_exceptions propagates a child's exception
GatherRaises(t, names) ==
    ~ReturnExceptions /\ \E i \in DOMAIN names : t[names[i]] = "raised"

\* results listed in the order the tasks finished (as asyncio.as_completed
\* would yield them), not what gather returns
GatherResultsInCompletionOrder(names, out, fin) ==
    [i \in DOMAIN names |-> out[fin[i]]]

\* asyncio.gather: the results list, in the order of the awaitables passed
GatherResults(names, out, fin) ==
    [i \in DOMAIN names |-> out[names[i]]]

\* a loop without the isinstance test of line 71
IsExceptionNever(result) == FALSE

\* line 71: isinstance(result, Exception)
IsException(result) == result.exc

\* a synthetic entry that drops the exception text
SyntheticEntryNoError(result) ==
    [status |-> "failed", vulnerabilities_found |-> 0,
     execution_time_ms |-> 0, error |-> None]

\* lines 72-77: the entry recorded for a backend that raised
SyntheticEntry(result) ==
    [status |-> "failed", vulnerabilities_found |-> 0,
     execution_time_ms |-> 0, error |-> Some(result.text)]

\* a faulty entry that records every returned outcome as failed
OutputEntryStatusFailed(result) ==
    [status |-> "failed",
     vulnerabilities_found |-> Len(result.vulnerabilities),
     execution_time_ms |-> result.execution_time_ms,
     error |-> IF TruthyStr(result.error_message)
               THEN result.error_message ELSE None]

\* lines 80-86: the entry recorded for a ScannerOutput; the "error" key is
\* set only when error_message is truthy (None stands for "key absent")
OutputEntry(result) ==
    [status |-> result.status,
     vulnerabilities_found |-> Len(result.vulnerabilities),
     execution_time_ms |-> result.execution_time_ms,
     error |-> IF TruthyStr(result.error_message)
               THEN result.error_message ELSE None]

\* lines 70-88: the loop over zip(scanners_to_run, results), first n pairs.
\* acc.raised: reading .status of an Exception raises AttributeError, which
\* leaves the loop and the call.
RECURSIVE Collect(_, _, _)
Collect(names, results, n) ==
    IF n = 0
    THEN [scanner_results |-> <<>>, all_vulnerabilities |-> <<>>, raised |-> FALSE]
    ELSE LET acc == Collect(names, results, n - 1)
             name == names[n]
             result == results[n]
         IN  IF acc.raised THEN acc
             ELSE IF IsException(result)
             THEN [acc EXCEPT !.scanner_results = (name :> SyntheticEntry(result)) @@ @]
             ELSE IF result.exc
             THEN [acc EXCEPT !.raised = TRUE]
             ELSE [acc EXCEPT
                     !.scanner_results = (name :> OutputEntry(result)) @@ @,
                     !.all_vulnerabilities = @ \o result.vulnerabilities]

OrchInit ==
    /\ \E arg \in ScannersArgs : scanners = Registered(arg)
    /\ scanner_preference \in Preferences
    /\ repo_exists \in BOOLEAN
    /\ pc = "call"
    /\ scanners_to_run = <<>>
    /\ task = [n \in BackendNames |-> "idle"]
    /\ outcome = [n \in BackendNames |-> NoResult]
    /\ finished = <<>>
    /\ scanner_results = <<>>
    /\ all_vulnerabilities = <<>>
    /\ vulnerabilities = <<>>

\* lines 49-68 up to the await: select the backends and hand one coroutine
\* per backend to asyncio.gather, which schedules them all as tasks.  With
\* nothing selected the call runs through lines 90-96 without suspending.
Begin ==
    /\ pc = "call"
    /\ LET names == ScannersToRun(scanners, scanner_preference)
       IN  /\ scanners_to_run' = names
           /\ task' = [n \in BackendNames |->
                         IF n \in Range(names) THEN "scheduled" ELSE task[n]]
           /\ IF names = <<>>
              THEN /\ pc' = "done"
                   /\ vulnerabilities' = DeduplicateVulnerabilities(<<>>)
              ELSE /\ pc' = "gather"
                   /\ vulnerabilities' = vulnerabilities
    /\ UNCHANGED <<scanners, scanner_preference, repo_exists, outcome, finished,
                   scanner_results, all_vulnerabilities, not_orch>>

\* lines 98-102: the event loop runs the first step of a task, which enters
\* scanner.scan(repo_path)
TaskStart(n) ==
    /\ task[n] = "scheduled"
    /\ task' = [task EXCEPT ![n] = "running"]
    /\ UNCHANGED <<scanners, scanner_preference, repo_exists, pc, scanners_to_run,
                   outcome, finished, scanner_results, all_vulnerabilities,
                   vulnerabilities, not_orch>>

\* lines 98-102: scanner.scan(repo_path) returns a ScannerOutput or raises
TaskFinish(n) ==
    /\ task[n] = "running"
    /\ \E o \in Outcomes :
         /\ outcome' = [outcome EXCEPT ![n] = o]
         /\ task' = [task EXCEPT ![n] = IF o.exc THEN "raised" ELSE "returned"]
    /\ finished' = Append(finished, n)
    /\ UNCHANGED <<scanners, scanner_preference, repo_exists, pc, scanners_to_run,
                   scanner_results, all_vulnerabilities, vulnerabilities, not_orch>>

\* lines 68-96: the await on gather completes; record every backend's entry,
\* merge the findings, deduplicate and return
Resume ==
    /\ pc = "gather"
    /\ GatherDone(task, scanners_to_run)
    /\ IF GatherRaises(task, scanners_to_run)
       THEN /\ pc' = "raised"
            /\ UNCHANGED <<scanner_results, all_vulnerabilities, vulnerabilities>>
       ELSE LET results == GatherResults(scanners_to_run, outcome, finished)
                acc == Collect(scanners_to_run, results, Len(scanners_to_run))
            IN  /\ scanner_results' = acc.scanner_results
                /\ all_vulnerabilities' = acc.all_vulnerabilities
                /\ IF acc.raised
                   THEN /\ pc' = "raised"
                        /\ vulnerabilities' = vulnerabilities
                   ELSE /\ pc' = "done"
                        /\ vulnerabilities' =
                             DeduplicateVulnerabilities(acc.all_vulnerabilities)
    /\ UNCHANGED <<scanners, scanner_preference, repo_exists, scanners_to_run,
                   task, outcome, finished, not_orch>>

-----------------------------------------------------------------------------
(* _deduplicate_vulnerabilities applied to every bounded argument list *)

\* records the OSV parser can build for one package version: an advisory id
\* (OSV also lists advisories whose own id is a CVE id), the first "CVE-" alias
\* or None, and score, summary and fixed version each absent, present but
\* falsy (0.0, ""), or present and truthy
DedupVulns ==
    { Vulnerability("requests", "2.0", idc[1], idc[2], cvss, summary, fixed, "osv") :
        idc \in {<<"GHSA-1", None>>, <<"GHSA-1", Some("CVE-1")>>,
                 <<"GHSA-2", Some("CVE-1")>>, <<"CVE-1", None>>},
        cvss \in {None, Some(0), Some(75)},
        summary \in {None, Some(""), Some("xss")},
        fixed \in {None, Some(""), Some("2.1")} }

DedupInit ==
    /\ \E k \in 0..MaxLen : dd_in \in [1..k -> DedupVulns]
    /\ dd_out = <<>>
    /\ dd_again = <<>>
    /\ dd_pc = "init"

Deduplicate ==
    /\ dd_pc = "init"
    /\ dd_out' = DeduplicateVulnerabilities(dd_in)
    /\ dd_pc' = "done"
    /\ UNCHANGED <<dd_in, dd_again, not_dd>>

\* the function called once more, on the list it returned
DeduplicateAgain ==
    /\ dd_pc = "done"
    /\ dd_again' = DeduplicateVulnerabilities(dd_out)
    /\ dd_pc' = "again"
    /\ UNCHANGED <<dd_in, dd_out, not_dd>>

DedupIdle == dd_in = <<>> /\ dd_out = <<>> /\ dd_again = <<>> /\ dd_pc = "off"

OrchIdle ==
    /\ scanners = {}
    /\ scanner_preference = "both"
    /\ repo_exists = TRUE
    /\ pc = "off"
    /\ scanners_to_run = <<>>
    /\ task = [n \in BackendNames |-> "idle"]
    /\ outcome = [n \in BackendNames |-> NoResult]
    /\ finished = <<>>
    /\ scanner_results = <<>>
    /\ all_vulnerabilities = <<>>
    /\ vulnerabilities = <<>>

-----------------------------------------------------------------------------
(* OSVScanner.scan: the subprocess and what it wrote *)

\* bytes read from a pipe: text is what bytes.decode() returns when the
\* bytes are valid UTF-8; decoding raises UnicodeDecodeError otherwise
Bytes(text) == [decodable |-> TRUE, text |-> text]
InvalidUtf8 == [decodable |-> FALSE, text |-> ""]

\* str() of the exceptions the scan can meet
UnicodeDecodeErrorText == "'utf-8' codec can't decode byte 0xff"
ListAttributeErrorText == "'list' object has no attribute 'get'"
StrAttributeErrorText == "'str' object has no attribute 'get'"
PermissionErrorText == "[Errno 13] Permission denied: 'osv-scanner'"
ProcessLookupErrorText == ""

\* the one finding of the report below, as _parse_vulnerability builds it
OsvFinding ==
    Vulnerability("requests", "2.0", "GHSA-1", Some("CVE-1"), Some(75), None, None, "osv")

\* a report with one finding whose database_specific.severity is the list
\* of {type, score} entries that _extract_severity iterates over
ReportText == "{\"results\": [{\"packages\": [requests]}]}"

\* a report with one finding whose database_specific.severity is a string,
\* as in the advisories osv-scanner takes from the GitHub Advisory Database
ReportTextSeverityString ==
    "{\"results\": [{\"packages\": [requests (severity: \"HIGH\")]}]}"

\* what the process can write to standard output: nothing, a message that is
\* not JSON, JSON that is not an object, a report without results, the two
\* reports above, bytes that are not UTF-8
OsvStdouts ==
    {Bytes(""), Bytes("scan failed"), Bytes("[]"), Bytes("{}"),
     Bytes(ReportText), Bytes(ReportTextSeverityString), InvalidUtf8}

\* what the process can write to standard error
OsvStderrs == {Bytes(""), Bytes("no lockfile found"), InvalidUtf8}

\* exit codes of the process: osv-scanner exits with 0 (no vulnerabilities),
\* 1 (vulnerabilities found), 127 (error) and 128 (no packages found)
OsvReturnCodes == {0, 1, 127, 128}

\* returncode of a process ended by SIGKILL
KilledReturnCode == 0 - 9

\* line 82: json.loads(text); ok is FALSE when it raises JSONDecodeError.
\* The parsed document is "array", or "report" with the findings it lists,
\* or "report_severity_string".
JsonLoads(text) ==
    IF text = ReportText
    THEN [ok |-> TRUE, kind |-> "report", findings |-> <<OsvFinding>>]
    ELSE IF text = ReportTextSeverityString
    THEN [ok |-> TRUE, kind |-> "report_severity_string", findings |-> <<>>]
    ELSE IF text = "{}"
    THEN [ok |-> TRUE, kind |-> "report", findings |-> <<>>]
    ELSE IF text = "[]"
    THEN [ok |-> TRUE, kind |-> "array", findings |-> <<>>]
    ELSE [ok |-> FALSE, kind |-> "", findings |-> <<>>]

\* lines 117-139, 172-177: _parse_osv_output.  raw_output.get raises
\* AttributeError on a document that is not an object, and so does
\* severity_entry.get in _extract_severity when the loop of line 177 runs
\* over the characters of a string.
ParseOsvOutput(doc) ==
    IF doc.kind = "report"
    THEN [raised |-> FALSE, text |-> "", vulnerabilities |-> doc.findings]
    ELSE IF doc.kind = "array"
    THEN [raised |-> TRUE, text |-> ListAttributeErrorText, vulnerabilities |-> <<>>]
    ELSE [raised |-> TRUE, text |-> StrAttributeErrorText, vulnerabilities |-> <<>>]

\* line 72: the exit codes of a successful scan
SuccessCodes == {0, 1}

\* lines 68-98 with the handler of lines 108-115: what scan returns once
\* communicate() has returned (returncode, stdout, stderr) in time
ScanAfterExit(returncode, stdout, stderr, ms) ==
    IF returncode \notin SuccessCodes
    THEN IF stderr.decodable
         THEN ScannerOutput("failed", <<>>, ms, Some(stderr.text))
         ELSE ScannerOutput("failed", <<>>, ms, Some(UnicodeDecodeErrorText))
    ELSE IF ~stdout.decodable
    THEN ScannerOutput("failed", <<>>, ms, Some(UnicodeDecodeErrorText))
    ELSE LET loaded == JsonLoads(stdout.text)
             parsed == ParseOsvOutput(loaded)
         IN  IF ~loaded.ok
             THEN ScannerOutput("failed", <<>>, ms,
                                Some("Failed to parse OSV Scanner output"))
             ELSE IF parsed.raised
             THEN ScannerOutput("failed", <<>>, ms, Some(parsed.text))
             ELSE ScannerOutput("completed", parsed.vulnerabilities, ms, None)

\* how create_subprocess_exec can end: the process runs, the executable is
\* missing (FileNotFoundError), or it cannot be executed (PermissionError)
SpawnOutcomes == {"spawned", "FileNotFoundError", "PermissionError"}

OsvInit ==
    /\ osv_pc = "call"
    /\ osv_proc = "none"
    /\ osv_returncode = None
    /\ osv_stdout = Bytes("")
    /\ osv_stderr = Bytes("")
    /\ osv_trace = <<>>
    /\ osv_result = NoResult

\* lines 38-50, 100-115: start the subprocess; a failure to start it is
\* returned as a failed outcome
OsvSpawn ==
    /\ osv_pc = "call"
    /\ \E how \in SpawnOutcomes, ms \in ExecutionTimes :
         IF how = "spawned"
         THEN /\ osv_pc' = "communicate"
              /\ osv_proc' = "running"
              /\ osv_trace' = Append(osv_trace, "spawn")
              /\ osv_result' = osv_result
         ELSE /\ osv_pc' = "returned"
              /\ osv_proc' = osv_proc
              /\ osv_trace' = Append(osv_trace, "return")
              /\ osv_result' =
                    ScannerOutput("failed", <<>>, ms,
                        Some(IF how = "FileNotFoundError"
                             THEN "OSV Scanner not found at osv-scanner"
                             ELSE PermissionErrorText))
    /\ UNCHANGED <<osv_returncode, osv_stdout, osv_stderr, not_osv>>

\* the subprocess exits on its own and the event loop collects its exit
\* status and output; this can happen while scan awaits communicate() and
\* also after the timeout has fired, before line 58 runs
OsvExit ==
    /\ osv_proc = "running"
    /\ osv_pc \in {"communicate", "timeout"}
    /\ \E rc \in OsvReturnCodes, out \in OsvStdouts, err \in OsvStderrs :
         /\ osv_returncode' = Some(rc)
         /\ osv_stdout' = out
         /\ osv_stderr' = err
    /\ osv_proc' = "reaped"
    /\ osv_trace' = Append(osv_trace, "exit")
    /\ UNCHANGED <<osv_pc, osv_result, not_osv>>

\* lines 53-56, 68-98, 108-115: communicate() returned before the timeout
OsvCommunicateReturns ==
    /\ osv_pc = "communicate"
    /\ osv_proc = "reaped"
    /\ \E ms \in ExecutionTimes :
         osv_result' = ScanAfterExit(osv_returncode[1], osv_stdout, osv_stderr, ms)
    /\ osv_pc' = "returned"
    /\ osv_trace' = Append(osv_trace, "return")
    /\ UNCHANGED <<osv_proc, osv_returncode, osv_stdout, osv_stderr, not_osv>>

\* lines 53-57: the subprocess is still running when the timeout expires;
\* wait_for cancels communicate() and raises TimeoutError
OsvTimeout ==
    /\ osv_pc = "communicate"
    /\ osv_proc = "running"
    /\ osv_pc' = "timeout"
    /\ osv_trace' = Append(osv_trace, "timeout")
    /\ UNCHANGED <<osv_proc, osv_returncode, osv_stdout, osv_stderr, osv_result,
                   not_osv>>

\* line 58: process.kill().  It sends SIGKILL to a running process.  For a
\* process that has exited in the meantime it either does nothing (the
\* transport still holds the process) or raises ProcessLookupError (the
\* transport is finished), which the handler of lines 108-115 turns into a
\* failed outcome.
OsvKill ==
    /\ osv_pc = "timeout"
    /\ \/ /\ osv_proc = "running"
          /\ osv_proc' = "killed"
          /\ osv_pc' = "wait"
          /\ osv_trace' = Append(osv_trace, "kill")
          /\ osv_result' = osv_result
       \/ /\ osv_proc = "reaped"
          /\ osv_proc' = osv_proc
          /\ osv_pc' = "wait"
          /\ osv_trace' = Append(osv_trace, "kill")
          /\ osv_result' = osv_result
       \/ /\ osv_proc = "reaped"
          /\ osv_proc' = osv_proc
          /\ osv_pc' = "returned"
          /\ osv_trace' = Append(osv_trace, "return")
          /\ \E ms \in ExecutionTimes :
               osv_result' =
                 ScannerOutput("failed", <<>>, ms, Some(ProcessLookupErrorText))
    /\ UNCHANGED <<osv_returncode, osv_stdout, osv_stderr, not_osv>>

\* the killed subprocess ends and the event loop collects its exit status
OsvReap ==
    /\ osv_proc = "killed"
    /\ osv_proc' = "reaped"
    /\ osv_returncode' = Some(KilledReturnCode)
    /\ osv_trace' = Append(osv_trace, "reap")
    /\ UNCHANGED <<osv_pc, osv_stdout, osv_stderr, osv_result, not_osv>>

\* lines 59-66: process.wait() returns once the exit status is collected;
\* return the timeout outcome
OsvWaitReturns ==
    /\ osv_pc = "wait"
    /\ osv_proc = "reaped"
    /\ \E ms \in ExecutionTimes :
         osv_result' = ScannerOutput("timeout", <<>>, ms,
                                     Some("Scanner execution timed out"))
    /\ osv_pc' = "returned"
    /\ osv_trace' = Append(osv_trace, "return")
    /\ UNCHANGED <<osv_proc, osv_returncode, osv_stdout, osv_stderr, not_osv>>

OsvIdle ==
    /\ osv_pc = "off"
    /\ osv_proc = "none"
    /\ osv_returncode = None
    /\ osv_stdout = Bytes("")
    /\ osv_stderr = Bytes("")
    /\ osv_trace = <<>>
    /\ osv_result = NoResult

-----------------------------------------------------------------------------
(* OSVScanner._extract_severity *)

\* lines 181, 183, 185: the thresholds, in tenths
CriticalThreshold == 90
HighThreshold == 70
ModerateThreshold == 40

\* CVSS scores, 0.0 to 10.0 in tenths
Scores == 0..100

\* one entry of the severity list: its "type" and its "score" (None when
\* the entry has no such key)
SeverityEntries ==
    [type : {"CVSS_V3", "CVSS_V2"}, score : {None} \cup {Some(x) : x \in Scores}]

\* line 180: `if cvss_score:`, the truthiness of the score
ScoreGiven(score) == TruthyNum(score)

\* lines 180-188: the severity of the first CVSS_V3 entry's score
SeverityOf(score) ==
    IF ScoreGiven(score)
    THEN IF score[1] >= CriticalThreshold THEN "CRITICAL"
         ELSE IF score[1] >= HighThreshold THEN "HIGH"
         ELSE IF score[1] >= ModerateThreshold THEN "MODERATE"
         ELSE "LOW"
    ELSE "UNKNOWN"

\* lines 172-191: only the first entry of type CVSS_V3 is looked at
ExtractSeverity(entries) ==
    IF \E i \in DOMAIN entries : entries[i].type = "CVSS_V3"
    THEN LET first == CHOOSE i \in DOMAIN entries :
                        /\ entries[i].type = "CVSS_V3"
                        /\ \A j \in 1..(i - 1) : entries[j].type # "CVSS_V3"
             cvss_score == entries[first].score
         IN  [severity |-> SeverityOf(cvss_score), cvss_score |-> cvss_score]
    ELSE [severity |-> "UNKNOWN", cvss_score |-> None]

SevInit ==
    /\ \E k \in 0..MaxEntries : sev_in \in [1..k -> SeverityEntries]
    /\ sev_out = [severity |-> "UNKNOWN", cvss_score |-> None]
    /\ sev_pc = "init"

ExtractSeverityCall ==
    /\ sev_pc = "init"
    /\ sev_out' = ExtractSeverity(sev_in)
    /\ sev_pc' = "done"
    /\ UNCHANGED <<sev_in, not_sev>>

SevIdle ==
    /\ sev_in = <<>>
    /\ sev_out = [severity |-> "UNKNOWN", cvss_score |-> None]
    /\ sev_pc = "off"

-----------------------------------------------------------------------------
(* MetricsCalculator.calculate_metrics *)

\* A datetime is the number of hours it lies before the utcnow() of line 38,
\* with its tzinfo: naive (tzinfo None) or aware.  _extract_published_date
\* (osv_scanner.py 212-219) returns an aware one for a "published" string
\* with a Z or an offset, a naive one for a string without.
Datetime(hours_ago, aware) == [hours_ago |-> hours_ago, aware |-> aware]

HoursPerDay == 24

\* the part of a Vulnerability that calculate_metrics reads
MetricsVulnerability(name, severity, published_at) ==
    [package_name |-> name, severity |-> severity, published_at |-> published_at]

\* severities: the five the parser assigns and one it does not
Severities == {"CRITICAL", "HIGH", "MODERATE", "LOW", "UNKNOWN", "critical"}

\* publication dates: none, 30, 120 and 250 hours ago without a time zone
\* (1, 5 and 10 whole days), 120 hours ago in UTC
PublishedAts ==
    {None, Some(Datetime(30, FALSE)), Some(Datetime(120, FALSE)),
     Some(Datetime(250, FALSE)), Some(Datetime(120, TRUE))}

MetricsVulns ==
    {MetricsVulnerability("requests", sev, p) : sev \in Severities, p \in PublishedAts}

\* a rational number in lowest terms, den > 0
RECURSIVE Gcd(_, _)
Gcd(a, b) == IF b = 0 THEN a ELSE Gcd(b, a % b)
Abs(x) == IF x < 0 THEN 0 - x ELSE x
Rational(num, den) ==
    LET g == Gcd(Abs(num), den)
    IN  [num |-> num \div g, den |-> den \div g]

\* line 42: now - vuln.published_at raises TypeError when one datetime is
\* naive and the other aware; now, from utcnow(), is naive
SubtractionRaises(published_at) == published_at.aware

\* line 42: timedelta.days, the whole days of the difference, rounded down
AgeDays(published_at) == published_at.hours_ago \div HoursPerDay

\* lines 40-43: vuln_ages after the first n records; raised when a
\* subtraction raised
RECURSIVE VulnAges(_, _)
VulnAges(vulns, n) ==
    IF n = 0 THEN [raised |-> FALSE, ages |-> <<>>]
    ELSE LET acc == VulnAges(vulns, n - 1)
             p == vulns[n].published_at
         IN  IF acc.raised \/ p = None THEN acc
             ELSE IF SubtractionRaises(p[1]) THEN [acc EXCEPT !.raised = TRUE]
             ELSE [acc EXCEPT !.ages = Append(@, AgeDays(p[1]))]

RECURSIVE SumSeq(_, _)
SumSeq(seq, n) == IF n = 0 THEN 0 ELSE SumSeq(seq, n - 1) + seq[n]

\* x put into the sorted sequence seq
Insert(seq, x) ==
    LET k == Cardinality({i \in DOMAIN seq : seq[i] <= x})
    IN  SubSeq(seq, 1, k) \o <<x>> \o SubSeq(seq, k + 1, Len(seq))

\* sorted(data)
RECURSIVE Sorted(_, _)
Sorted(seq, n) == IF n = 0 THEN <<>> ELSE Insert(Sorted(seq, n - 1), seq[n])

\* line 47: statistics.mean
Mean(ages) == Rational(SumSeq(ages, Len(ages)), Len(ages))

\* line 48: statistics.median: the middle value of the sorted data, the
\* average of the two middle values for an even count
Median(ages) ==
    LET data == Sorted(ages, Len(ages))
        n == Len(data)
    IN  IF n % 2 = 1
        THEN Rational(data[n \div 2 + 1], 1)
        ELSE Rational(data[n \div 2] + data[n \div 2 + 1], 2)

\* line 49: max
Max(ages) == CHOOSE x \in Range(ages) : \A y \in Range(ages) : y <= x

\* lines 34, 68-73: Counter(...).get(sev, 0)
SeverityCount(vulns, sev) ==
    Cardinality({i \in DOMAIN vulns : vulns[i].severity = sev})

\* the exception that leaves the call
MetricsRaised(type) ==
    [raised |-> TRUE, type |-> type, total_vulnerabilities |-> 0,
     unique_packages_affected |-> 0,
     by_severity |-> [sev \in {"CRITICAL", "HIGH", "MODERATE", "LOW"} |-> 0],
     mean |-> None, median |-> None, max |-> None]

\* lines 29-85: the returned dict (the entries computed from the argument),
\* or the TypeError of line 42
CalculateMetrics(vulns) ==
    LET aged == VulnAges(vulns, Len(vulns))
        ages == aged.ages
    IN  IF aged.raised THEN MetricsRaised("TypeError")
        ELSE [raised |-> FALSE, type |-> "",
              total_vulnerabilities |-> Len(vulns),
              unique_packages_affected |->
                  Cardinality({vulns[i].package_name : i \in DOMAIN vulns}),
              by_severity |->
                  [sev \in {"CRITICAL", "HIGH", "MODERATE", "LOW"} |->
                      SeverityCount(vulns, sev)],
              mean |-> IF ages # <<>> THEN Some(Mean(ages)) ELSE None,
              median |-> IF ages # <<>> THEN Some(Median(ages)) ELSE None,
              max |-> IF ages # <<>> THEN Some(Max(ages)) ELSE None]

\* the slot before the call
NoMetrics == [MetricsRaised("") EXCEPT !.raised = FALSE]

MetInit ==
    /\ \E k \in 0..MaxVulns : met_in \in [1..k -> MetricsVulns]
    /\ met_out = NoMetrics
    /\ met_pc = "init"

CalculateMetricsCall ==
    /\ met_pc = "init"
    /\ met_out' = CalculateMetrics(met_in)
    /\ met_pc' = "done"
    /\ UNCHANGED <<met_in, not_met>>

MetIdle ==
    /\ met_in = <<>>
    /\ met_out = NoMetrics
    /\ met_pc = "off"

-----------------------------------------------------------------------------
(* app/services/cache.py: ScanCache over cachetools.TTLCache *)

\* repository identities (owner, name, ref, commit_sha); two of them format
\* to the same key string
Identities ==
    {<<owner, name, "main", "s1">> : owner \in {"a", "a/b"}, name \in {"c", "b/c"}}

\* the scan results stored
CachedResults == {"result 1", "result 2"}

\* line 35: the formatted key string
KeyStr(id) == id[1] \o "/" \o id[2] \o "@" \o id[3] \o "#" \o id[4]

\* lines 22-36: _make_key; the SHA-256 digest of the key string, distinct
\* for distinct strings
MakeKey(id) == <<"sha256", KeyStr(id)>>

\* an entry of the TTLCache
Entry(key, value, expires) == [key |-> key, value |-> value, expires |-> expires]

\* an entry taken for live one tick less than its expiry time allows
UnexpiredOneTickShort(e, now) == now + 1 < e.expires

\* TTLCache: an entry is live while timer() < expires
Unexpired(e, now) == now < e.expires

\* TTLCache.expire: drop the entries that are no longer live
Expire(store, now) == SelectSeq(store, LAMBDA e : Unexpired(e, now))

\* the position of a live entry of the key, 0 if there is none
LiveIndex(store, key, now) ==
    IF \E i \in DOMAIN store : store[i].key = key /\ Unexpired(store[i], now)
    THEN CHOOSE i \in DOMAIN store : store[i].key = key /\ Unexpired(store[i], now)
    ELSE 0

\* store without the entry at position i
Without(store, i) == SubSeq(store, 1, i - 1) \o SubSeq(store, i + 1, Len(store))

\* a set that makes room by dropping the most recently used entries
SetItemEvictingNewest(store, key, value, now) ==
    LET live == Expire(store, now)
        i == LiveIndex(live, key, now)
        fresh == Entry(key, value, now + Ttl)
    IN  IF i # 0
        THEN [store |-> Append(Without(live, i), fresh), evicted |-> {}]
        ELSE LET excess == IF Len(live) + 1 > MaxSize
                           THEN Len(live) + 1 - MaxSize ELSE 0
             IN  [store |-> Append(SubSeq(live, 1, Len(live) - excess), fresh),
                  evicted |-> {live[j].key : j \in (Len(live) - excess + 1)..Len(live)}]

\* line 66: TTLCache.__setitem__: expire, make room for a new key by popping
\* least recently used entries, store the value as the most recently used
\* entry with a full lifetime.  evicted: the keys popped to make room.
SetItem(store, key, value, now) ==
    LET live == Expire(store, now)
        i == LiveIndex(live, key, now)
        fresh == Entry(key, value, now + Ttl)
    IN  IF i # 0
        THEN [store |-> Append(Without(live, i), fresh), evicted |-> {}]
        ELSE LET excess == IF Len(live) + 1 > MaxSize
                           THEN Len(live) + 1 - MaxSize ELSE 0
             IN  [store |-> Append(SubSeq(live, excess + 1, Len(live)), fresh),
                  evicted |-> {live[j].key : j \in 1..excess}]

\* a read that restarts the lifetime of the entry it returns
GetItemRefreshing(store, key, now) ==
    LET i == LiveIndex(store, key, now)
    IN  IF i = 0
        THEN [store |-> store, result |-> None]
        ELSE [store |-> Append(Without(store, i),
                               Entry(key, store[i].value, now + Ttl)),
              result |-> Some(store[i].value)]

\* line 52: TTLCache.get: the value of a live entry, which becomes the most
\* recently used one; None for a missing or expired key, and nothing moves
GetItem(store, key, now) ==
    LET i == LiveIndex(store, key, now)
    IN  IF i = 0
        THEN [store |-> store, result |-> None]
        ELSE [store |-> Append(Without(store, i), store[i]),
              result |-> Some(store[i].value)]

\* line 79: TTLCache.pop(key, None): removes a live entry of the key
PopItem(store, key, now) ==
    LET i == LiveIndex(store, key, now)
    IN  IF i = 0 THEN store ELSE Without(store, i)

NoGet == [op |-> "none", id |-> <<>>, result |-> None]

NoEviction == [by |-> "none", expired |-> {}, lru |-> {}]

\* lines 12-20, 86-95: the cache as get_scan_cache() creates it
CacheInit ==
    /\ cache_store = <<>>
    /\ cache_clock = 0
    /\ cache_got = NoGet
    /\ cache_owed = [id \in Identities |-> None]
    /\ cache_evicted = NoEviction

\* what the tuples are owed after a set of `value` under `id` that evicted
\* the keys `evicted`
OwedAfterSet(owed, id, value, now, evicted) ==
    [j \in DOMAIN owed |->
       IF j = id THEN Some([value |-> value, set_at |-> now])
       ELSE IF MakeKey(j) = MakeKey(id) THEN None
       ELSE IF MakeKey(j) \in evicted THEN None
       ELSE owed[j]]

\* the keys of the entries that are no longer live
ExpiredKeys(store, now) ==
    {store[i].key : i \in {j \in DOMAIN store : ~Unexpired(store[j], now)}}

\* lines 54-66: set
CacheSet(id, value) ==
    LET done == SetItem(cache_store, MakeKey(id), value, cache_clock)
    IN  /\ cache_store' = done.store
        /\ cache_owed' = OwedAfterSet(cache_owed, id, value, cache_clock,
                                      done.evicted)
        /\ cache_got' = NoGet
        /\ cache_evicted' = [by |-> "set",
                             expired |-> ExpiredKeys(cache_store, cache_clock),
                             lru |-> done.evicted]
        /\ UNCHANGED <<cache_clock, not_cache>>

\* lines 38-52: get
CacheGet(id) ==
    LET done == GetItem(cache_store, MakeKey(id), cache_clock)
    IN  /\ cache_store' = done.store
        /\ cache_got' = [op |-> "get", id |-> id, result |-> done.result]
        /\ cache_evicted' = NoEviction
        /\ UNCHANGED <<cache_clock, cache_owed, not_cache>>

\* lines 68-79: invalidate
CacheInvalidate(id) ==
    /\ cache_store' = PopItem(cache_store, MakeKey(id), cache_clock)
    /\ cache_owed' = [j \in Identities |->
                        IF MakeKey(j) = MakeKey(id) THEN None ELSE cache_owed[j]]
    /\ cache_got' = NoGet
    /\ cache_evicted' = NoEviction
    /\ UNCHANGED <<cache_clock, not_cache>>

\* lines 81-83: clear
CacheClear ==
    /\ cache_store' = <<>>
    /\ cache_owed' = [j \in Identities |-> None]
    /\ cache_got' = NoGet
    /\ cache_evicted' = NoEviction
    /\ UNCHANGED <<cache_clock, not_cache>>

\* time passes between two operations
CacheTick ==
    /\ cache_clock < MaxClock
    /\ cache_clock' = cache_clock + 1
    /\ cache_got' = NoGet
    /\ cache_evicted' = NoEviction
    /\ UNCHANGED <<cache_store, cache_owed, not_cache>>

CacheIdle ==
    /\ cache_store = <<>>
    /\ cache_clock = 0
    /\ cache_got = [op |-> "off", id |-> <<>>, result |-> None]
    /\ cache_owed = [id \in Identities |-> None]
    /\ cache_evicted = NoEviction

-----------------------------------------------------------------------------
(* app/routes/scan.py: POST /v1/scan/repository.                            *)
(* The handlers are coroutines of one event loop: a step of the model is    *)
(* the code one request runs between two awaits.                            *)

\* requests in flight at once
MaxRequests == 2
Requests == 1..MaxRequests

\* rows the repository_scans table can take
MaxScans == 3

\* the identities GitHub resolves the requests to: two commits of one
\* repository and another repository
AppIdentities ==
    {<<"a", "c", "main", "s1">>, <<"a", "c", "main", "s2">>,
     <<"a", "d", "main", "s1">>}

\* config.scanner
AppPreferences == {"github", "both"}

\* what a backend finds in the tree of an identity: repository c has one
\* finding per backend, and from commit s2 on the OSV finding carries a
\* publication date, parsed from a 'Z'-suffixed string (osv_scanner.py,
\* lines 212-219); the GitHub backend never sets published_at
BackendFindings(id, n) ==
    IF id[2] # "c" THEN <<>>
    ELSE IF n = "osv"
    THEN <<MetricsVulnerability("requests", "HIGH",
              IF id[4] = "s2" THEN Some(Datetime(120, TRUE)) ELSE None)>>
    ELSE <<MetricsVulnerability("urllib3", "LOW", None)>>

\* lines 161-164: ScannerOrchestrator().scan_repository(repo_path,
\* scanner_preference) on the tree of an identity, every backend completing
OrchestratorResult(id, preference) ==
    LET names == ScannersToRun(Registered([is_none |-> TRUE, classes |-> {}]),
                               preference)
    IN  [scanner_results |->
            [n \in Range(names) |->
                [status |-> "completed",
                 vulnerabilities_found |-> Len(BackendFindings(id, n))]],
         vulnerabilities |->
            (IF "osv" \in Range(names)
             THEN BackendFindings(id, "osv") ELSE <<>>)
            \o (IF "github" \in Range(names)
                THEN BackendFindings(id, "github") ELSE <<>>)]

\* lines 216-259: _build_response_data
BuildResponseData(scan_id, id, scan_results, health_metrics) ==
    [scan_id |-> scan_id,
     repository |-> id,
     scanner_results |-> scan_results.scanner_results,
     vulnerabilities |-> scan_results.vulnerabilities,
     health_metrics |-> health_metrics]

\* a storage failure that goes unnoticed: the response is built and handed
\* on although the record was not stored
ExecuteScanStoreUnchecked(id, preference, scan_id, db_ok) ==
    LET scan_results == OrchestratorResult(id, preference)
        health_metrics == CalculateMetrics(scan_results.vulnerabilities)
    IN  IF health_metrics.raised
        THEN [raised |-> TRUE, status |-> "in_progress", data |-> None]
        ELSE [raised |-> FALSE,
              status |-> IF db_ok THEN "completed" ELSE "in_progress",
              data |-> Some(BuildResponseData(scan_id, id, scan_results,
                                              health_metrics))]

\* lines 159-175: the try block of _execute_scan once the orchestrator has
\* returned: calculate_metrics (line 167) may raise, the commit of
\* _store_scan_results (line 213) may raise; status is what the record then
\* has in the database
ExecuteScan(id, preference, scan_id, db_ok) ==
    LET scan_results == OrchestratorResult(id, preference)
        health_metrics == CalculateMetrics(scan_results.vulnerabilities)
    IN  IF health_metrics.raised \/ ~db_ok
        THEN [raised |-> TRUE, status |-> "in_progress", data |-> None]
        ELSE [raised |-> FALSE, status |-> "completed",
              data |-> Some(BuildResponseData(scan_id, id, scan_results,
                                              health_metrics))]

\* a get_scan_cache that builds a ScanCache on every call
GetScanCacheAlwaysNew(instances, store) ==
    [instances |-> instances + 1, store |-> <<>>]

\* cache.py, lines 90-95: get_scan_cache: the global instance, built on the
\* first call
GetScanCache(instances, store) ==
    IF instances = 0
    THEN [instances |-> 1, store |-> <<>>]
    ELSE [instances |-> instances, store |-> store]

\* lines 79-85 and 93-96, 104-107, 154-157: the HTTPException the client gets
ErrorResponse(code) == [code |-> code, cached |-> FALSE, body |-> None]

\* lines 66 and 77: ScanResponse(**data)
OkResponse(data, cached) == [code |-> 200, cached |-> cached, body |-> Some(data)]

NoRequest == [id |-> <<>>, scanner |-> ""]

NoEnd == [req |-> NoRequest, response |-> ErrorResponse(0), scan_id |-> 0,
          dir |-> "none", reading |-> {}]

\* a step that makes no call on the cache
CacheUntouched ==
    /\ cache_got' = NoGet
    /\ cache_evicted' = NoEviction
    /\ UNCHANGED <<cache_store, cache_clock, cache_owed, cache_instances>>

AppInit ==
    /\ ep_pc = [r \in Requests |-> "idle"]
    /\ ep_req = [r \in Requests |-> NoRequest]
    /\ ep_scan_id = [r \in Requests |-> 0]
    /\ ep_dir = [r \in Requests |-> "none"]
    /\ ep_reading = [r \in Requests |-> {}]
    /\ ep_ended = NoEnd
    /\ ep_db = <<>>
    /\ cache_instances = 0
    /\ cache_store = <<>>
    /\ cache_clock = 0
    /\ cache_got = NoGet
    /\ cache_owed = [id \in AppIdentities |-> None]
    /\ cache_evicted = NoEviction

\* lines 66, 77, 80, 82-85: the request of slot r ends with a response; what
\* it asked (req, once resolved), its record id, its directory (dir: as the
\* request leaves it) and the backends still running are noted, and the slot
\* is free for the next request
Ends(r, req, response, scan_id, dir) ==
    /\ ep_ended' = [req |-> req, response |-> response,
                    scan_id |-> scan_id, dir |-> dir, reading |-> ep_reading[r]]
    /\ ep_pc' = [ep_pc EXCEPT ![r] = "idle"]
    /\ ep_req' = [ep_req EXCEPT ![r] = NoRequest]
    /\ ep_scan_id' = [ep_scan_id EXCEPT ![r] = 0]
    /\ ep_dir' = [ep_dir EXCEPT ![r] = "none"]
    /\ ep_reading' = [ep_reading EXCEPT ![r] = {}]

\* the request of slot r goes on to position pc
GoesOn(r, position) ==
    /\ ep_ended' = NoEnd
    /\ ep_pc' = [ep_pc EXCEPT ![r] = position]

\* lines 57-59: a request arrives; it is given the first free slot.  Its
\* fields are first used by the cache check and are drawn there.
EpReceive(r) ==
    /\ ep_pc[r] = "idle"
    /\ \A q \in 1..(r - 1) : ep_pc[q] # "idle"
    /\ GoesOn(r, "get_repository")
    /\ CacheUntouched
    /\ UNCHANGED <<ep_req, ep_scan_id, ep_dir, ep_reading, ep_db, not_ep>>

\* lines 90-98: get_repository answers
EpGetRepository(r, found) ==
    /\ ep_pc[r] = "get_repository"
    /\ IF found
       THEN /\ GoesOn(r, "get_commit")
            /\ UNCHANGED <<ep_req, ep_scan_id, ep_dir, ep_reading>>
       ELSE Ends(r, NoRequest, ErrorResponse(404), 0, "none")
    /\ CacheUntouched
    /\ UNCHANGED <<ep_db, not_ep>>

\* lines 100-109, 64-69, 145-148 and github.py 110-127: get_commit answers;
\* with a commit (the request is then for identity id, with config.scanner
\* scanner) the handler checks the cache and, on a miss, creates the record,
\* makes the checkout directory and starts git clone
EpGetCommit(r, id, scanner, valid) ==
    /\ ep_pc[r] = "get_commit"
    /\ IF ~valid
       THEN /\ Ends(r, NoRequest, ErrorResponse(400), 0, "none")
            /\ CacheUntouched
            /\ UNCHANGED ep_db
       ELSE LET cache == GetScanCache(cache_instances, cache_store)
                got == GetItem(cache.store, MakeKey(id), cache_clock)
                req == [id |-> id, scanner |-> scanner]
            IN  /\ cache_instances' = cache.instances
                /\ cache_store' = got.store
                /\ cache_got' = [op |-> "get", id |-> id, result |-> got.result]
                /\ cache_evicted' = NoEviction
                /\ UNCHANGED <<cache_clock, cache_owed>>
                /\ IF got.result # None
                   THEN /\ Ends(r, req, OkResponse(got.result[1], TRUE), 0,
                                "none")
                        /\ UNCHANGED ep_db
                   ELSE /\ Len(ep_db) < MaxScans
                        /\ ep_db' = Append(ep_db, "in_progress")
                        /\ ep_req' = [ep_req EXCEPT ![r] = req]
                        /\ ep_scan_id' = [ep_scan_id EXCEPT ![r] = Len(ep_db) + 1]
                        /\ ep_dir' = [ep_dir EXCEPT ![r] = "exists"]
                        /\ GoesOn(r, "clone")
                        /\ UNCHANGED ep_reading
    /\ UNCHANGED not_ep

\* github.py 129-134 and lines 149-157, 161-164 and orchestrator 62-69: git
\* clone exits; on failure the record is marked failed and the request ends,
\* otherwise the selected backends are started on the directory
EpCloneExits(r, cloned) ==
    /\ ep_pc[r] = "clone"
    /\ CacheUntouched
    /\ IF cloned
       THEN /\ ep_reading' =
                 [ep_reading EXCEPT ![r] =
                    Range(ScannersToRun(
                             Registered([is_none |-> TRUE, classes |-> {}]),
                             ep_req[r].scanner))]
            /\ GoesOn(r, "gather")
            /\ UNCHANGED <<ep_req, ep_scan_id, ep_dir, ep_db>>
       ELSE /\ ep_db' = [ep_db EXCEPT ![ep_scan_id[r]] = "failed"]
            /\ Ends(r, ep_req[r], ErrorResponse(500), ep_scan_id[r], ep_dir[r])
    /\ UNCHANGED not_ep

\* orchestrator 102-137: a backend's scan() finishes
EpBackendFinishes(r, n) ==
    /\ ep_pc[r] = "gather"
    /\ n \in ep_reading[r]
    /\ ep_reading' = [ep_reading EXCEPT ![r] = @ \ {n}]
    /\ ep_ended' = NoEnd
    /\ CacheUntouched
    /\ UNCHANGED <<ep_pc, ep_req, ep_scan_id, ep_dir, ep_db, not_ep>>

\* lines 166-178 and 74-85: gather returns once every backend has finished;
\* metrics, storage and the response follow, the directory is removed in the
\* finally clause, and a result that came back is cached and returned
EpGatherReturns(r, db_ok) ==
    /\ ep_pc[r] = "gather"
    /\ ep_reading[r] = {}
    /\ LET done == ExecuteScan(ep_req[r].id, ep_req[r].scanner, ep_scan_id[r],
                               db_ok)
       IN  /\ ep_db' = [ep_db EXCEPT ![ep_scan_id[r]] = done.status]
           /\ IF done.raised
              THEN /\ Ends(r, ep_req[r], ErrorResponse(500), ep_scan_id[r], "deleted")
                   /\ CacheUntouched
              ELSE LET cache == GetScanCache(cache_instances, cache_store)
                       put == SetItem(cache.store, MakeKey(ep_req[r].id),
                                      done.data[1], cache_clock)
                   IN  /\ Ends(r, ep_req[r], OkResponse(done.data[1], FALSE),
                               ep_scan_id[r], "deleted")
                       /\ cache_instances' = cache.instances
                       /\ cache_store' = put.store
                       /\ cache_owed' =
                             OwedAfterSet(cache_owed, ep_req[r].id, done.data[1],
                                          cache_clock, put.evicted)
                       /\ cache_got' = NoGet
                       /\ cache_evicted' =
                             [by |-> "set",
                              expired |-> ExpiredKeys(cache.store, cache_clock),
                              lru |-> put.evicted]
                       /\ UNCHANGED cache_clock
    /\ UNCHANGED not_ep

\* time passes: the lifetime of a cache entry
AppTick ==
    /\ cache_clock + Ttl <= MaxClock
    /\ cache_clock' = cache_clock + Ttl
    /\ cache_got' = NoGet
    /\ cache_evicted' = NoEviction
    /\ ep_ended' = NoEnd
    /\ UNCHANGED <<cache_store, cache_owed, cache_instances, ep_pc, ep_req,
                   ep_scan_id, ep_dir, ep_reading, ep_db, not_ep>>

AppIdle ==
    /\ ep_pc = [r \in Requests |-> "off"]
    /\ ep_req = [r \in Requests |-> NoRequest]
    /\ ep_scan_id = [r \in Requests |-> 0]
    /\ ep_dir = [r \in Requests |-> "none"]
    /\ ep_reading = [r \in Requests |-> {}]
    /\ ep_ended = NoEnd
    /\ ep_db = <<>>
    /\ cache_instances = 0

-----------------------------------------------------------------------------
(* app/routes/health.py and app/database_init.py *)

\* database_init.py, lines 49-55: required_tables
RequiredTables ==
    {"api_keys", "repository_scans", "scan_vulnerabilities", "scan_metrics",
     "repository_configs"}

NoBody == [path |-> "none"]

\* database_init.py, lines 42-68: check_database_health on its own
\* connection: False when a required table is missing or the inspection
\* raises
CheckDatabaseHealth(db) == db.connected /\ RequiredTables \subseteq db.tables

\* main.py, lines 17-23 and database_init.py, lines 12-39: the application
\* has started, init_database() created the tables of an empty database
HealthInit ==
    /\ health_db = [connected |-> TRUE, tables |-> RequiredTables]
    /\ health_response = NoBody

\* health.py, lines 15-18: GET /health
HealthCheck ==
    /\ health_response' = [path |-> "/health", status |-> "healthy"]
    /\ UNCHANGED <<health_db, not_health>>

\* health.py, lines 21-42: GET /health/db
DatabaseHealthCheck ==
    /\ health_response' =
          IF health_db.connected
          THEN LET is_healthy == CheckDatabaseHealth(health_db)
               IN  [path |-> "/health/db",
                    status |-> IF is_healthy THEN "healthy" ELSE "degraded",
                    database |-> "connected",
                    schema |-> IF is_healthy THEN "complete" ELSE "incomplete"]
          ELSE [path |-> "/health/db", status |-> "unhealthy",
                database |-> "disconnected", error |-> "OperationalError"]
    /\ UNCHANGED <<health_db, not_health>>

\* the database server stops or starts accepting connections
DatabaseToggles ==
    /\ health_db' = [health_db EXCEPT !.connected = ~@]
    /\ health_response' = NoBody
    /\ UNCHANGED not_health

\* an operator drops or restores a table
TableToggles(t) ==
    /\ health_db' = [health_db EXCEPT !.tables =
                        IF t \in @ THEN @ \ {t} ELSE @ \cup {t}]
    /\ health_response' = NoBody
    /\ UNCHANGED not_health

HealthIdle ==
    /\ health_db = [connected |-> FALSE, tables |-> {}]
    /\ health_response = NoBody

-----------------------------------------------------------------------------
(* Specifications *)

Init ==
    OrchInit /\ DedupIdle /\ OsvIdle /\ SevIdle /\ MetIdle /\ CacheIdle /\ AppIdle /\ HealthIdle
Next ==
    \/ Begin
    \/ \E n \in BackendNames : TaskStart(n)
    \/ \E n \in BackendNames : TaskFinish(n)
    \/ Resume
Spec == Init /\ [][Next]_vars

InitDedup ==
    DedupInit /\ OrchIdle /\ OsvIdle /\ SevIdle /\ MetIdle /\ CacheIdle /\ AppIdle /\ HealthIdle
NextDedup == Deduplicate \/ DeduplicateAgain
SpecDedup == InitDedup /\ [][NextDedup]_vars

InitOsv ==
    OsvInit /\ OrchIdle /\ DedupIdle /\ SevIdle /\ MetIdle /\ CacheIdle /\ AppIdle /\ HealthIdle
NextOsv ==
    \/ OsvSpawn
    \/ OsvExit
    \/ OsvCommunicateReturns
    \/ OsvTimeout
    \/ OsvKill
    \/ OsvReap
    \/ OsvWaitReturns
SpecOsv == InitOsv /\ [][NextOsv]_vars

InitSeverity ==
    SevInit /\ OrchIdle /\ DedupIdle /\ OsvIdle /\ MetIdle /\ CacheIdle /\ AppIdle /\ HealthIdle
NextSeverity == ExtractSeverityCall
SpecSeverity == InitSeverity /\ [][NextSeverity]_vars

InitMetrics ==
    MetInit /\ OrchIdle /\ DedupIdle /\ OsvIdle /\ SevIdle /\ CacheIdle /\ AppIdle /\ HealthIdle
NextMetrics == CalculateMetricsCall
SpecMetrics == InitMetrics /\ [][NextMetrics]_vars

InitCache ==
    CacheInit /\ OrchIdle /\ DedupIdle /\ OsvIdle /\ SevIdle /\ MetIdle /\ AppIdle /\ HealthIdle
NextCache ==
    \/ \E id \in Identities, value \in CachedResults : CacheSet(id, value)
    \/ \E id \in Identities : CacheGet(id)
    \/ \E id \in Identities : CacheInvalidate(id)
    \/ CacheClear
    \/ CacheTick
SpecCache == InitCache /\ [][NextCache]_vars

InitApp ==
    AppInit /\ OrchIdle /\ DedupIdle /\ OsvIdle /\ SevIdle /\ MetIdle /\ HealthIdle
NextApp ==
    \/ \E r \in Requests : EpReceive(r)
    \/ \E r \in Requests, found \in BOOLEAN : EpGetRepository(r, found)
    \/ \E r \in Requests, id \in AppIdentities, scanner \in AppPreferences,
          valid \in BOOLEAN : EpGetCommit(r, id, scanner, valid)
    \/ \E r \in Requests, cloned \in BOOLEAN : EpCloneExits(r, cloned)
    \/ \E r \in Requests, n \in {"osv", "github"} : EpBackendFinishes(r, n)
    \/ \E r \in Requests, db_ok \in BOOLEAN : EpGatherReturns(r, db_ok)
    \/ AppTick
SpecApp == InitApp /\ [][NextApp]_vars

InitHealth ==
    HealthInit /\ OrchIdle /\ DedupIdle /\ OsvIdle /\ SevIdle /\ MetIdle
        /\ CacheIdle /\ AppIdle
NextHealth ==
    \/ HealthCheck
    \/ DatabaseHealthCheck
    \/ DatabaseToggles
    \/ \E t \in RequiredTables : TableToggles(t)
SpecHealth == InitHealth /\ [][NextHealth]_vars

-----------------------------------------------------------------------------
(* Properties of scan_repository, checked under Spec *)

Selected == Range(scanners_to_run)

\* the selected backends whose scan() raised / returned a ScannerOutput
Raisers == {n \in Selected : outcome[n].exc}
Returners == {n \in Selected : ~outcome[n].exc}

\* the findings of the selected backends in `include`, concatenated in the
\* order of selection
MergedFindings(include) ==
    LET F[i \in 0..Len(scanners_to_run)] ==
            IF i = 0 THEN <<>>
            ELSE IF scanners_to_run[i] \in include
                 THEN F[i - 1] \o outcome[scanners_to_run[i]].vulnerabilities
                 ELSE F[i - 1]
    IN  F[Len(scanners_to_run)]

\* number of occurrences of v in seq
Count(seq, v) == Cardinality({i \in DOMAIN seq : seq[i] = v})

\* C1: whatever the selected backends do (complete, fail, time out, raise),
\* scan_repository never raises, and what it returns holds an entry for every
\* selected backend next to the vulnerabilities list.
C1_NeverRaises ==
    /\ pc # "raised"
    /\ pc = "done" => /\ DOMAIN scanner_results = Selected
                      /\ vulnerabilities \in SeqUpTo(OrchVulns, Len(all_vulnerabilities))

\* C1 witness: a call that returned although both selected backends failed to
\* deliver, one of them by raising
C1_Witness ==
    /\ pc = "done"
    /\ Len(scanners_to_run) = 2
    /\ Raisers # {}
    /\ \A n \in Selected : outcome[n].exc \/ outcome[n].status \in {"failed", "timeout"}

\* C2: a selected backend whose scan() raised is recorded as failed, with 0
\* findings, 0 ms and the exception text as error; the entries of the other
\* selected backends and the vulnerabilities are what the other backends
\* alone account for.
C2_RaisingBackendIsolated ==
    pc = "done" =>
        /\ \A n \in Raisers :
              /\ scanner_results[n].status = "failed"
              /\ scanner_results[n].vulnerabilities_found = 0
              /\ scanner_results[n].execution_time_ms = 0
              /\ scanner_results[n].error = Some(outcome[n].text)
        /\ \A n \in Returners :
              /\ scanner_results[n].status = outcome[n].status
              /\ scanner_results[n].vulnerabilities_found = Len(outcome[n].vulnerabilities)
              /\ scanner_results[n].execution_time_ms = outcome[n].execution_time_ms
        /\ all_vulnerabilities = MergedFindings(Returners)
        /\ vulnerabilities = DeduplicateVulnerabilities(MergedFindings(Returners))

\* C2 witness: one backend raised with a text, its sibling completed with
\* findings, and the call returned
C2_Witness ==
    /\ pc = "done"
    /\ \E n \in Raisers : outcome[n].text = "boom"
    /\ \E n \in Returners : outcome[n].status = "completed" /\ outcome[n].vulnerabilities # <<>>

\* C3: the result holds exactly one entry per selected backend, under the
\* backend's own name with its own status, count and time, in whatever order
\* the backends finished; every finding of a completed backend is in the
\* merged list exactly as often as that backend reported it.
C3_OneEntryPerBackend ==
    pc = "done" =>
        /\ DOMAIN scanner_results = Selected
        /\ \A n \in Returners :
              /\ scanner_results[n].status = outcome[n].status
              /\ scanner_results[n].vulnerabilities_found = Len(outcome[n].vulnerabilities)
              /\ scanner_results[n].execution_time_ms = outcome[n].execution_time_ms
        /\ \A n \in Raisers : scanner_results[n].status = "failed"
        /\ \A v \in OrchVulns :
              Count(all_vulnerabilities, v) =
                  Count(MergedFindings({n \in Returners : outcome[n].status = "completed"}), v)

\* C3 witness: github finished before osv; osv timed out and github completed
\* with two findings, in a returned call
C3_Witness ==
    /\ pc = "done"
    /\ finished = <<"github", "osv">>
    /\ outcome["osv"].status = "timeout"
    /\ outcome["github"].status = "completed"
    /\ Len(outcome["github"].vulnerabilities) = 2

\* C4: no selected backend is still unscheduled once any backend has
\* finished, and when the call has ended (returned or raised) every selected
\* backend has finished or faulted: none is left scheduled or running.
C4_AllStartedAllAwaited ==
    /\ (\E n \in BackendNames : TaskDone(task, n)) =>
           \A m \in Selected : task[m] # "idle"
    /\ pc \in {"done", "raised"} => \A m \in Selected : TaskDone(task, m)

\* C4 witness: one backend has raised while its sibling is still running and
\* the call is still suspended on the gather
C4_Witness ==
    /\ pc = "gather"
    /\ \E n, m \in Selected : task[n] = "raised" /\ task[m] = "running"

\* C5 (as claimed): every subset of the registered backends can be selected
C5_EverySubsetSelectable ==
    \A S \in SUBSET scanners :
        \E p \in Preferences : Range(ScannersToRun(scanners, p)) = S

\* C6 (as claimed): a call returns a result only for an existing repository
\* path and a selection that names at least one registered backend
C6_InvalidInputFails ==
    pc = "done" => repo_exists /\ scanners_to_run # <<>>

-----------------------------------------------------------------------------
(* Properties of _deduplicate_vulnerabilities, checked under SpecDedup *)

\* the deduplication key as the specification words it: by the CVE id when
\* the record has one, else by the backend-native id
StatedKey(v) ==
    IF v.cve_id # None
    THEN <<v.package_name, v.package_version, v.cve_id[1]>>
    ELSE <<v.package_name, v.package_version, v.vulnerability_id>>

StatedKeys(seq) == {StatedKey(seq[i]) : i \in DOMAIN seq}

\* a finished run on two records of one key: the first is the kept record
\* when the second, the incoming one, is met
Collision ==
    /\ dd_pc = "done"
    /\ Len(dd_in) = 2
    /\ StatedKey(dd_in[1]) = StatedKey(dd_in[2])

HasScore(v) == v.cvss_score # None
HasFixedVersion(v) == v.fixed_version # None /\ v.fixed_version # Some("")
HasSummary(v) == v.summary # None /\ v.summary # Some("")

\* a brings a fixed version or a summary that b lacks
BringsMore(a, b) ==
    \/ HasFixedVersion(a) /\ ~HasFixedVersion(b)
    \/ HasSummary(a) /\ ~HasSummary(b)

\* C7: the output holds exactly one record, taken from the input, per
\* distinct key of the input: the keys of output and input are the same set
\* and no two output records share a key.
C7_OneRecordPerKey ==
    dd_pc = "done" =>
        /\ StatedKeys(dd_out) = StatedKeys(dd_in)
        /\ \A i, j \in DOMAIN dd_out :
              StatedKey(dd_out[i]) = StatedKey(dd_out[j]) => i = j
        /\ \A i \in DOMAIN dd_out : dd_out[i] \in Range(dd_in)

\* C7 witness: two different advisories with the same CVE alias collapse
\* into one record
C7_Witness ==
    /\ Collision
    /\ dd_in[1].vulnerability_id # dd_in[2].vulnerability_id
    /\ dd_in[1].cve_id # None
    /\ Len(dd_out) = 1

\* C8 (as claimed): on a collision the first matching rule decides, CVSS
\* score before fixed version before summary, where a score counts as
\* present whatever its value, 0.0 included
C8_FirstMatchingRuleDecides ==
    Collision =>
        LET kept == dd_in[1]
            incoming == dd_in[2]
        IN  dd_out = << IF HasScore(incoming) /\ ~HasScore(kept) THEN incoming
                        ELSE IF HasFixedVersion(incoming) /\ ~HasFixedVersion(kept)
                        THEN incoming
                        ELSE IF HasSummary(incoming) /\ ~HasSummary(kept)
                        THEN incoming
                        ELSE kept >>

\* "has a CVSS score" read as the code reads it, a score other than 0.0 (how
\* a score of 0.0 is treated is the subject of C8)
HasNonZeroScore(v) == v.cvss_score # None /\ v.cvss_score # Some(0)

\* two records with the same (package, version, CVE), one with a CVSS score
\* and one without
OneScoredOfTwo ==
    /\ Collision
    /\ dd_in[1].cve_id # None
    /\ dd_in[2].cve_id # None
    /\ \/ HasNonZeroScore(dd_in[1]) /\ dd_in[2].cvss_score = None
       \/ HasNonZeroScore(dd_in[2]) /\ dd_in[1].cvss_score = None

IncomingCompletesTwoFields ==
    /\ Collision
    /\ HasFixedVersion(dd_in[2]) /\ HasSummary(dd_in[2])
    /\ ~HasFixedVersion(dd_in[1]) /\ ~HasSummary(dd_in[1])

\* C10 (as claimed): only the fixed version is applied; the survivor keeps
\* the kept record's absent summary
C10_OnlyFixedVersionApplied ==
    IncomingCompletesTwoFields =>
        /\ Len(dd_out) = 1
        /\ dd_out[1].fixed_version = dd_in[2].fixed_version
        /\ dd_out[1].summary = dd_in[1].summary

\* C10 (amended): the incoming record replaces the kept one as a whole; the
\* survivor is the incoming record, with its fixed version and its summary
\* and every other field of it
C10_IncomingReplacesWhole ==
    IncomingCompletesTwoFields => dd_out = <<dd_in[2]>>

\* C10 witness: the kept record had a score and the incoming one none; the
\* survivor has the incoming summary and no score
C10_Witness ==
    /\ IncomingCompletesTwoFields
    /\ dd_in[1].cvss_score = Some(75)
    /\ dd_in[2].cvss_score = None
    /\ dd_out[1].summary = Some("xss")
    /\ dd_out[1].cvss_score = None

\* C11: deduplication is idempotent: a second call, on the list the first
\* call returned, returns that list again, the same records in the same order
C11_DedupIdempotent ==
    dd_pc = "again" => dd_again = dd_out

\* C11 witness: the first call collapsed a collision, the incoming record
\* replacing the kept one; the second call returned the survivor unchanged
C11_Witness ==
    /\ dd_pc = "again"
    /\ Len(dd_in) = 2
    /\ dd_out = <<dd_in[2]>>
    /\ dd_in[1] # dd_in[2]
    /\ dd_again = dd_out

-----------------------------------------------------------------------------
(* Order of the consolidated collection, checked under Spec *)

\* what backend n contributed to the merge: the findings it returned
Reported(n) == IF n \in Returners THEN outcome[n].vulnerabilities ELSE <<>>

\* the merged input in the stated order: osv's findings, then github's
MergedOsvThenGitHub == Reported("osv") \o Reported("github")

\* the position at which key k first occurs in seq, 0 if it does not occur
FirstOccurrence(seq, k) ==
    IF \E i \in DOMAIN seq : StatedKey(seq[i]) = k
    THEN CHOOSE i \in DOMAIN seq :
            /\ StatedKey(seq[i]) = k
            /\ \A j \in 1..(i - 1) : StatedKey(seq[j]) # k
    ELSE 0

\* C12: the consolidated collection is ordered by the position at which each
\* record's key first occurs in the merged input (osv's findings, then
\* github's, each in its own order); a survivor that replaced an earlier
\* record stands at the position of the key's first occurrence.
C12_OrderedByFirstOccurrence ==
    pc = "done" =>
        /\ \A i \in DOMAIN vulnerabilities :
              FirstOccurrence(MergedOsvThenGitHub, StatedKey(vulnerabilities[i])) > 0
        /\ \A i, j \in DOMAIN vulnerabilities :
              i < j =>
                FirstOccurrence(MergedOsvThenGitHub, StatedKey(vulnerabilities[i]))
                  < FirstOccurrence(MergedOsvThenGitHub, StatedKey(vulnerabilities[j]))

\* C12 witness: osv reported two keys, github a duplicate of the first that
\* replaced osv's record; the replacing record stands first, ahead of osv's
\* second record
C12_Witness ==
    /\ pc = "done"
    /\ Len(Reported("osv")) = 2
    /\ Len(Reported("github")) = 1
    /\ vulnerabilities = <<Reported("github")[1], Reported("osv")[2]>>
    /\ Reported("github")[1] # Reported("osv")[1]
    /\ StatedKey(Reported("github")[1]) = StatedKey(Reported("osv")[1])

-----------------------------------------------------------------------------
(* Failed and timed-out backends, checked under Spec *)

\* the selected backends whose recorded status is completed
RecordedCompleted ==
    {n \in Selected : scanner_results[n].status = "completed"}

-----------------------------------------------------------------------------
(* Properties of OSVScanner.scan, checked under SpecOsv *)

\* position of the first event e in the trace, 0 if it has not happened
EventAt(e) ==
    IF \E i \in DOMAIN osv_trace : osv_trace[i] = e
    THEN CHOOSE i \in DOMAIN osv_trace :
            osv_trace[i] = e /\ \A j \in 1..(i - 1) : osv_trace[j] # e
    ELSE 0

Happened(e) == EventAt(e) > 0

\* C14 (as claimed): scan never raises, and every outcome other than
\* completed has status failed or timeout, no vulnerabilities and a
\* non-empty error message
C14_FailureOutcomePopulated ==
    /\ osv_pc \in {"call", "communicate", "timeout", "wait", "returned"}
    /\ (osv_pc = "returned" /\ osv_result.status # "completed") =>
          /\ osv_result.status \in {"failed", "timeout"}
          /\ osv_result.vulnerabilities = <<>>
          /\ osv_result.error_message # None
          /\ osv_result.error_message # Some("")

\* C15 (as claimed): once the timeout has expired with the subprocess still
\* running, scan returns only after the kill and with the subprocess reaped,
\* and what it returns is the timeout outcome without vulnerabilities; and
\* a timeout outcome is never returned for a subprocess not yet reaped
C15_TimeoutKillsReapsReturnsTimeout ==
    /\ (osv_pc = "returned" /\ Happened("timeout")) =>
          /\ osv_result.status = "timeout"
          /\ osv_result.vulnerabilities = <<>>
          /\ Happened("kill") /\ EventAt("kill") < EventAt("return")
          /\ osv_proc = "reaped"
    /\ (osv_pc = "returned" /\ osv_result.status = "timeout") =>
          osv_proc = "reaped"

\* scan has returned for a subprocess that exited before the timeout
ExitedInTime ==
    /\ osv_pc = "returned"
    /\ Happened("exit")
    /\ ~Happened("timeout")

\* standard output is text that json.loads accepts
StdoutParsesAsJson ==
    osv_stdout.decodable /\ JsonLoads(osv_stdout.text).ok

\* C16 (as claimed): for a subprocess that exited in time the status is
\* completed exactly when the exit code is 0 or 1 and standard output parses
\* as JSON, and failed otherwise
C16_CompletedIffExitOkAndJson ==
    ExitedInTime =>
        /\ osv_result.status \in {"completed", "failed"}
        /\ osv_result.status = "completed" <=>
              (osv_returncode[1] \in {0, 1} /\ StdoutParsesAsJson)

-----------------------------------------------------------------------------
(* Properties of _extract_severity, checked under SpecSeverity *)

\* C17 (as claimed): the severity returned goes with the score returned: a
\* present score maps by the thresholds, 9.0 and above to CRITICAL, 7.0 and
\* above to HIGH, 4.0 and above to MODERATE, every other present score, 0.0
\* included, to LOW; the severity is UNKNOWN exactly when no score is present
C17_SeverityByThresholds ==
    sev_pc = "done" =>
        LET score == sev_out.cvss_score
        IN  /\ score # None =>
                  sev_out.severity =
                     IF score[1] >= 90 THEN "CRITICAL"
                     ELSE IF score[1] >= 70 THEN "HIGH"
                     ELSE IF score[1] >= 40 THEN "MODERATE"
                     ELSE "LOW"
            /\ sev_out.severity = "UNKNOWN" <=> score = None

-----------------------------------------------------------------------------
(* Properties of calculate_metrics, checked under SpecMetrics *)

HistogramBuckets == {"CRITICAL", "HIGH", "MODERATE", "LOW"}

\* C18 (as claimed): calculate_metrics reports, for each of the four
\* buckets, the number of input records with that severity; records with
\* UNKNOWN or an unrecognised severity are in no bucket, so the buckets sum
\* to the total minus the number of such records
C18_SeverityBucketsExact ==
    met_pc = "done" =>
        /\ ~met_out.raised
        /\ \A sev \in HistogramBuckets :
              met_out.by_severity[sev] =
                 Cardinality({i \in DOMAIN met_in : met_in[i].severity = sev})
        /\ met_out.by_severity["CRITICAL"] + met_out.by_severity["HIGH"]
             + met_out.by_severity["MODERATE"] + met_out.by_severity["LOW"]
           = met_out.total_vulnerabilities
             - Cardinality({i \in DOMAIN met_in :
                              met_in[i].severity \notin HistogramBuckets})

\* the records with a publication timestamp and their ages in whole days
Dated == {i \in DOMAIN met_in : met_in[i].published_at # None}
AgeOf(i) == met_in[i].published_at[1].hours_ago \div 24

\* the k-th smallest age, counting repetitions
KthAge(k) ==
    CHOOSE x \in {AgeOf(i) : i \in Dated} :
        /\ Cardinality({i \in Dated : AgeOf(i) < x}) < k
        /\ Cardinality({i \in Dated : AgeOf(i) <= x}) >= k

\* the sum of the ages of the records in S
RECURSIVE AgeSum(_)
AgeSum(S) ==
    IF S = {} THEN 0
    ELSE LET i == CHOOSE j \in S : TRUE IN AgeOf(i) + AgeSum(S \ {i})

\* C19 (as claimed): with at least one dated record calculate_metrics
\* reports the mean, the median (the average of the two middle values for an
\* even count) and the maximum of the ages in whole days; with none, the
\* empty input included, all three are None
C19_AgeStatistics ==
    met_pc = "done" =>
        /\ ~met_out.raised
        /\ Dated = {} =>
              met_out.mean = None /\ met_out.median = None /\ met_out.max = None
        /\ Dated # {} =>
              LET n == Cardinality(Dated)
              IN  /\ met_out.mean # None
                  /\ met_out.mean[1].num * n = AgeSum(Dated) * met_out.mean[1].den
                  /\ met_out.median # None
                  /\ met_out.median[1].num * 2 =
                        (IF n % 2 = 1
                         THEN 2 * KthAge((n + 1) \div 2)
                         ELSE KthAge(n \div 2) + KthAge(n \div 2 + 1))
                        * met_out.median[1].den
                  /\ met_out.max = Some(KthAge(n))

-----------------------------------------------------------------------------
(* Properties of ScanCache, checked under SpecCache *)

\* C20: a get made with the four components of an earlier set returns the
\* value of that set, provided less than the TTL has passed since the set
\* and the entry has not been invalidated, cleared, overwritten or evicted
\* for capacity in between.  (Overwritten: by any later set stored under the
\* entry's key; the value of the latest set under the same four components
\* is the one owed.)
C20_SetThenGetReturnsValue ==
    cache_got.op = "get" =>
        LET owed == cache_owed[cache_got.id]
        IN  (owed # None /\ cache_clock < owed[1].set_at + Ttl) =>
                cache_got.result = Some(owed[1].value)

\* C20 witness: a get returns the value set under its tuple one tick
\* earlier, after other entries were set and read in between
C20_Witness ==
    /\ cache_got.op = "get"
    /\ cache_owed[cache_got.id] # None
    /\ cache_clock = cache_owed[cache_got.id][1].set_at + 1
    /\ cache_got.result = Some(cache_owed[cache_got.id][1].value)
    /\ Len(cache_store) = MaxSize

\* C21: two different (owner, name, ref, commit_sha) tuples never share a
\* cache entry: a get that hits returns an entry stored by a set made under
\* the get's own tuple, never one stored under a tuple that differs in some
\* component (cache_owed of a tuple is absent while the latest set under
\* its key was made under another tuple)
C21_DifferentTuplesNeverShareEntry ==
    (cache_got.op = "get" /\ cache_got.result # None) =>
        cache_owed[cache_got.id] # None

\* C22: an entry expires a fixed TTL after the set that stored it: a get at
\* or after that instant returns absent though nothing invalidated the
\* entry, and no read extends or restarts a lifetime: every entry kept for
\* a tuple's latest set still expires exactly Ttl after that set
C22_ExpiresTtlAfterSet ==
    /\ cache_got.op = "get" =>
          LET owed == cache_owed[cache_got.id]
          IN  (owed # None /\ cache_clock >= owed[1].set_at + Ttl) =>
                  cache_got.result = None
    /\ \A i \in DOMAIN cache_store, id \in Identities :
          (cache_store[i].key = MakeKey(id) /\ cache_owed[id] # None) =>
              cache_store[i].expires = cache_owed[id][1].set_at + Ttl

\* C22 witness: a get made exactly Ttl after the set of its tuple returns
\* absent; the entry had been read before (it is the most recently used one
\* although the other entry was set later), and nothing invalidated it
C22_Witness ==
    /\ cache_got.op = "get"
    /\ cache_got.result = None
    /\ cache_owed[cache_got.id] # None
    /\ cache_clock = cache_owed[cache_got.id][1].set_at + Ttl
    /\ Len(cache_store) = 2
    /\ cache_store[2].key = MakeKey(cache_got.id)
    /\ cache_store[2].expires = cache_clock
    /\ cache_store[1].expires > cache_store[2].expires

\* the keys of the entries a store holds, and of those still live
Keys(store) == {store[i].key : i \in DOMAIN store}
LiveKeys(store, now) ==
    {store[i].key : i \in {j \in DOMAIN store : Unexpired(store[j], now)}}

\* C23: after any sequence of set, get, invalidate and clear the cache holds
\* at most max_size entries; a set of a new key into a full cache removes an
\* existing entry and the new entry is present afterwards: when some entry
\* has expired only expired entries go, otherwise exactly the least recently
\* used entry goes (so not the entry the preceding get has just read)
C23_CapacityAndEviction ==
    /\ [](Len(cache_store) <= MaxSize)
    /\ [][\A id \in Identities, value \in CachedResults :
            (/\ CacheSet(id, value)
             /\ Len(cache_store) = MaxSize
             /\ MakeKey(id) \notin Keys(cache_store)) =>
                /\ GetItem(cache_store', MakeKey(id), cache_clock).result
                      = Some(value)
                /\ ~(Keys(cache_store) \subseteq Keys(cache_store'))
                /\ IF LiveKeys(cache_store, cache_clock) # Keys(cache_store)
                   THEN LiveKeys(cache_store, cache_clock)
                           \subseteq Keys(cache_store')
                   ELSE /\ Keys(cache_store') =
                              (Keys(cache_store) \ {cache_store[1].key})
                                 \cup {MakeKey(id)}
                        /\ (cache_got.op = "get" /\ cache_got.result # None) =>
                               MakeKey(cache_got.id) \in Keys(cache_store')]_vars

\* C23 witness: a set of a new key into a full cache without expired
\* entries has just evicted the least recently used entry; the cache is
\* full again and its most recently used entry is the new one
C23_Witness ==
    /\ cache_evicted.by = "set"
    /\ cache_evicted.expired = {}
    /\ cache_evicted.lru # {}
    /\ Len(cache_store) = MaxSize
    /\ cache_store[Len(cache_store)].expires = cache_clock + Ttl
    /\ cache_evicted.lru \cap Keys(cache_store) = {}

-----------------------------------------------------------------------------
(* Properties of the scan endpoint, checked under SpecApp *)

\* C24: all requests share one process-wide cache instance, and under every
\* interleaving of simultaneous requests the cache is never corrupted: it
\* holds one entry per key and at most max_size entries, and each get
\* returns either absent or the value of the latest set made under its key
C24_SharedCacheNeverCorrupted ==
    /\ cache_instances <= 1
    /\ Len(cache_store) <= MaxSize
    /\ \A i, j \in DOMAIN cache_store :
          cache_store[i].key = cache_store[j].key => i = j
    /\ cache_got.op = "get" =>
          \/ cache_got.result = None
          \/ \E id \in AppIdentities :
                /\ MakeKey(id) = MakeKey(cache_got.id)
                /\ cache_owed[id] # None
                /\ cache_got.result = Some(cache_owed[id][1].value)

\* C24 witness: two requests for one identity ran at once (both missed, both
\* scanned and both set: two completed scans, one entry, and no entry has
\* expired or been evicted); a get then returns the value of the later set
\* while another request is scanning
C24_Witness ==
    /\ cache_clock = 0
    /\ Len(ep_db) = 3
    /\ ep_db[1] = "completed" /\ ep_db[2] = "completed"
    /\ Len(cache_store) = 1
    /\ cache_got.op = "get"
    /\ cache_got.result = Some(cache_store[1].value)
    /\ cache_got.result = Some(cache_owed[cache_got.id][1].value)
    /\ \E r \in Requests : ep_pc[r] = "gather"

\* C25: a cache hit is equivalent to a fresh scan: a response answered from
\* the cache carries the scanner results and the vulnerabilities that a
\* scan of the request's identity with the request's scanner selection
\* produces
C25_CacheHitEqualsFreshScan ==
    ep_ended.response.cached =>
        LET fresh == OrchestratorResult(ep_ended.req.id, ep_ended.req.scanner)
            answer == ep_ended.response.body[1]
        IN  /\ answer.scanner_results = fresh.scanner_results
            /\ answer.vulnerabilities = fresh.vulnerabilities

\* C26: the checkout directory of a request is deleted on every exit path
\* (no request ends with its directory still there), and it is deleted only
\* after every backend has finished reading it
C26_DirectoryDeletedOnEveryExit ==
    /\ ep_ended.dir # "exists"
    /\ ep_ended.dir = "deleted" => ep_ended.reading = {}

\* C28: a request that created a scan record leaves it completed or failed,
\* never in_progress, whichever way the request ends
C28_NoRecordLeftInProgress ==
    ep_ended.scan_id # 0 => ep_db[ep_ended.scan_id] \in {"completed", "failed"}

\* C29: an entry is written to the cache only by a request whose scan ran to
\* the end and whose record is stored as completed, under that request's
\* identity; every other step of every request (so every request that ends
\* in an error) leaves the entries of the cache as they are; and a request
\* answered from the cache creates no record and starts no backend
C29_CacheWrittenOnlyAfterCompletedScan ==
    [][/\ ~(Range(cache_store') \subseteq Range(cache_store)) =>
             /\ ep_ended'.response.code = 200
             /\ ~ep_ended'.response.cached
             /\ ep_ended'.reading = {}
             /\ ep_ended'.scan_id # 0
             /\ ep_db'[ep_ended'.scan_id] = "completed"
             /\ cache_store'[Len(cache_store')].key = MakeKey(ep_ended'.req.id)
             /\ Some(cache_store'[Len(cache_store')].value)
                   = ep_ended'.response.body
       /\ ep_ended'.response.code # 200 =>
             Range(cache_store') = Range(cache_store)
       /\ ep_ended'.response.cached =>
             /\ Range(cache_store') = Range(cache_store)
             /\ ep_ended'.scan_id = 0
             /\ ep_db' = ep_db
             /\ ep_reading' = ep_reading
             /\ ep_dir' = ep_dir]_vars

\* C29 witness: a completed scan has just been cached under its identity,
\* after an earlier request created a record and ended in an error without
\* anything having been cached
C29_Witness ==
    /\ cache_evicted.by = "set"
    /\ ep_ended.response.code = 200
    /\ ep_db[ep_ended.scan_id] = "completed"
    /\ cache_store = <<Entry(MakeKey(ep_ended.req.id),
                             ep_ended.response.body[1], cache_clock + Ttl)>>
    /\ \E i \in DOMAIN ep_db :
          /\ ep_db[i] # "completed"
          /\ \A r \in Requests : ep_scan_id[r] # i
          /\ \A j \in DOMAIN ep_db : j # i => ep_db[j] = "completed"
          /\ Len(ep_db) = 2

-----------------------------------------------------------------------------
(* Properties of the health endpoints, checked under SpecHealth *)

\* C27: GET /health answers with status "healthy" and service
\* "oss-health-monitor"; GET /health/db with a reachable database answers
\* with status "healthy", service "oss-health-monitor" and database
\* "connected"
C27_HealthAnswersStatusAndService ==
    /\ health_response.path = "/health" =>
          /\ health_response.status = "healthy"
          /\ "service" \in DOMAIN health_response
          /\ health_response["service"] = "oss-health-monitor"
    /\ (health_response.path = "/health/db" /\ health_db.connected) =>
          /\ health_response.status = "healthy"
          /\ "service" \in DOMAIN health_response
          /\ health_response["service"] = "oss-health-monitor"
          /\ health_response.database = "connected"

-----------------------------------------------------------------------------
(* Properties of calculate_metrics on the parser's output, checked under    *)
(* SpecMetrics                                                              *)

\* C30: calculate_metrics returns metrics, rather than raising, for every
\* vulnerability list the OSV parser can produce, findings with a
\* timezone-aware publication timestamp included
C30_CalculateMetricsNeverRaises ==
    met_pc = "done" => ~met_out.raised

====
